---- MODULE Spec2Model ----
(***************************************************************************)
(* Model of password_validator.py: the policy validator                    *)
(* (validate_password, PASSWORD_REGEX), the line parser (parse_line) and   *)
(* the file loader (load_and_validate).                                    *)
(*                                                                         *)
(* A Python str is a finite sequence of Unicode code points (naturals).    *)
(* A Python value is a record [type, val]: type is the name of its class   *)
(* ("str", "bytes", "NoneType"), val the sequence it holds.                *)
(***************************************************************************)
EXTENDS Naturals, Sequences, FiniteSets

VARIABLES arg, verdict, file, i, out, pc

vars == <<arg, verdict, file, i, out, pc>>

(***************************************************************************)
(* Bounds of the explored inputs.                                          *)
(***************************************************************************)
MaxCore == 2
MaxLines == 2
MaxLineLen == 1

(***************************************************************************)
(* Character classes of the regular expressions, by code point.            *)
(***************************************************************************)
\* [A-Z]
UpperAZ == 65..90

\* [a-z]
LowerAZ == 97..122

\* [0-9]
Digit09 == 48..57

\* [#$%!@+=]
Special == {35, 36, 37, 33, 64, 43, 61}

\* \d in a str pattern: any Unicode decimal digit (category Nd); the ASCII
\* digits and the Arabic-Indic, Extended Arabic-Indic, Devanagari and
\* fullwidth digit blocks.
UnicodeDecimal ==
    (48..57) \cup (1632..1641) \cup (1776..1785) \cup (2406..2415) \cup (65296..65305)

\* AllowedClass with \d written for 0-9
AllowedClass_unicode_digits == UpperAZ \cup LowerAZ \cup UnicodeDecimal \cup Special

\* [A-Za-z0-9#$%!@+=]
AllowedClass == UpperAZ \cup LowerAZ \cup Digit09 \cup Special

\* "." without DOTALL: any character but the line feed
IsDot(c) == c # 10

\* str.isspace(), the characters str.strip() removes
IsWhitespace(c) ==
    \/ c \in 9..13
    \/ c \in 28..32
    \/ c \in {133, 160, 5760, 8232, 8233, 8239, 8287, 12288}
    \/ c \in 8192..8202

(***************************************************************************)
(* Messages of validate_password (accents and the >= sign transliterated). *)
(***************************************************************************)
MSG_INVALID == "Cadena invalida"
MSG_SHORT == "Largo < 10 o caracteres fuera del conjunto permitido"
MSG_CHARSET == "Caracteres fuera del conjunto permitido"
MSG_UPPER == "Faltan mayusculas (>=3)"
MSG_DIGIT == "Faltan digitos (>=3)"
MSG_SPECIAL == "Falta caracter especial [#$%!@+=]"
MSG_POLICY == "No cumple la politica"
MSG_OK == "OK"

(***************************************************************************)
(* Python values.                                                          *)
(***************************************************************************)
Str(s) == [type |-> "str", val |-> s]

None == [type |-> "NoneType", val |-> <<>>]

\* isinstance_str with bytes accepted as text
isinstance_str_or_bytes(v) == v.type \in {"str", "bytes"}

isinstance_str(v) == v.type = "str"

(***************************************************************************)
(* re primitives.                                                          *)
(***************************************************************************)
\* re.findall(class, s): the matches of a one-character class, in order
findall(class, s) ==
    LET InClass(c) == c \in class
    IN  SelectSeq(s, InClass)

\* re.search(class, s) is not None
search(class, s) == \E k \in 1..Len(s) : s[k] \in class

\* CharsetLenFullmatch with the quantifier {11,}
CharsetLenFullmatch_min11(s) ==
    /\ Len(s) >= 11
    /\ \A k \in 1..Len(s) : s[k] \in AllowedClass

\* CharsetLenFullmatch with the quantifier {9,}
CharsetLenFullmatch_min9(s) ==
    /\ Len(s) >= 9
    /\ \A k \in 1..Len(s) : s[k] \in AllowedClass

\* re.fullmatch(r'[A-Za-z0-9#$%!@+=]{10,}', s) is not None
CharsetLenFullmatch(s) ==
    /\ Len(s) >= 10
    /\ \A k \in 1..Len(s) : s[k] \in AllowedClass

\* "$" without MULTILINE, after k characters: at the end of the string, or
\* just before a line feed that ends the string
DollarAt(s, k) ==
    \/ k = Len(s)
    \/ k = Len(s) - 1 /\ s[Len(s)] = 10

\* the positions ".*" can stop at when it starts after k characters
DotStarEnds(s, k) == {j \in k..Len(s) : \A m \in (k + 1)..j : IsDot(s[m])}

\* the positions "(?:.*C){n}" can stop at when it starts at one of starts;
\* at is the set of the positions of s that hold a character of class C
RECURSIVE RepeatDotStarAt(_, _, _, _)
RepeatDotStarAt(s, at, n, starts) ==
    IF n = 0 THEN starts
    ELSE RepeatDotStarAt(s, at, n - 1,
                         {e \in at : \E k \in starts : e - 1 \in DotStarEnds(s, k)})

\* the positions "(?:.*C){n}" can stop at when it starts at the beginning
RepeatDotStarClass(class, s, n) ==
    RepeatDotStarAt(s, {k \in 1..Len(s) : s[k] \in class}, n, {0})

\* (?=([A-Za-z0-9#$%!@+=]{10,})$)
LookaheadCharsetLen(s) ==
    \E n \in 10..Len(s) :
        /\ \A m \in 1..n : s[m] \in AllowedClass
        /\ DollarAt(s, n)

\* LookaheadUpper with the quantifier {4}
LookaheadUpper_four(s) == RepeatDotStarClass(UpperAZ, s, 4) # {}

\* (?=(?:.*[A-Z]){3})
LookaheadUpper(s) == RepeatDotStarClass(UpperAZ, s, 3) # {}

\* LookaheadDigit with the quantifier {4}
LookaheadDigit_four(s) == RepeatDotStarClass(UnicodeDecimal, s, 4) # {}

\* (?=(?:.*\d){3})
LookaheadDigit(s) == RepeatDotStarClass(UnicodeDecimal, s, 3) # {}

\* (?=.*[#$%!@+=])
LookaheadSpecial(s) == RepeatDotStarClass(Special, s, 1) # {}

\* PASSWORD_REGEX.fullmatch(s) is not None: the four lookaheads at the
\* beginning, then ".*$" which has to consume the whole string
PASSWORD_REGEX(s) ==
    /\ LookaheadCharsetLen(s)
    /\ LookaheadUpper(s)
    /\ LookaheadDigit(s)
    /\ LookaheadSpecial(s)
    /\ \E j \in DotStarEnds(s, 0) : DollarAt(s, j) /\ j = Len(s)

(***************************************************************************)
(* validate_password                                                       *)
(***************************************************************************)
Verdict(v, m) == [valid |-> v, message |-> m]

\* validate_password with the digit check run before the uppercase check
validate_password_digits_first(pw) ==
    IF ~isinstance_str(pw) THEN Verdict(FALSE, MSG_INVALID)
    ELSE IF ~CharsetLenFullmatch(pw.val) THEN
        IF Len(pw.val) < 10 THEN Verdict(FALSE, MSG_SHORT)
        ELSE Verdict(FALSE, MSG_CHARSET)
    ELSE IF Len(findall(UnicodeDecimal, pw.val)) < 3 THEN Verdict(FALSE, MSG_DIGIT)
    ELSE IF Len(findall(UpperAZ, pw.val)) < 3 THEN Verdict(FALSE, MSG_UPPER)
    ELSE IF ~search(Special, pw.val) THEN Verdict(FALSE, MSG_SPECIAL)
    ELSE IF PASSWORD_REGEX(pw.val) THEN Verdict(TRUE, MSG_OK)
    ELSE Verdict(FALSE, MSG_POLICY)

\* validate_password with the sub-reason chosen by the character set
validate_password_charset_first(pw) ==
    IF ~isinstance_str(pw) THEN Verdict(FALSE, MSG_INVALID)
    ELSE IF ~CharsetLenFullmatch(pw.val) THEN
        IF \E k \in 1..Len(pw.val) : pw.val[k] \notin AllowedClass
        THEN Verdict(FALSE, MSG_CHARSET)
        ELSE Verdict(FALSE, MSG_SHORT)
    ELSE IF Len(findall(UpperAZ, pw.val)) < 3 THEN Verdict(FALSE, MSG_UPPER)
    ELSE IF Len(findall(UnicodeDecimal, pw.val)) < 3 THEN Verdict(FALSE, MSG_DIGIT)
    ELSE IF ~search(Special, pw.val) THEN Verdict(FALSE, MSG_SPECIAL)
    ELSE IF PASSWORD_REGEX(pw.val) THEN Verdict(TRUE, MSG_OK)
    ELSE Verdict(FALSE, MSG_POLICY)

validate_password(pw) ==
    IF ~isinstance_str(pw) THEN Verdict(FALSE, MSG_INVALID)
    ELSE IF ~CharsetLenFullmatch(pw.val) THEN
        IF Len(pw.val) < 10 THEN Verdict(FALSE, MSG_SHORT)
        ELSE Verdict(FALSE, MSG_CHARSET)
    ELSE IF Len(findall(UpperAZ, pw.val)) < 3 THEN Verdict(FALSE, MSG_UPPER)
    ELSE IF Len(findall(UnicodeDecimal, pw.val)) < 3 THEN Verdict(FALSE, MSG_DIGIT)
    ELSE IF ~search(Special, pw.val) THEN Verdict(FALSE, MSG_SPECIAL)
    ELSE IF PASSWORD_REGEX(pw.val) THEN Verdict(TRUE, MSG_OK)
    ELSE Verdict(FALSE, MSG_POLICY)

(***************************************************************************)
(* parse_line                                                              *)
(***************************************************************************)
RECURSIVE lstrip(_)
lstrip(s) == IF s # <<>> /\ IsWhitespace(Head(s)) THEN lstrip(Tail(s)) ELSE s

RECURSIVE rstrip(_)
rstrip(s) ==
    IF s # <<>> /\ IsWhitespace(s[Len(s)]) THEN rstrip(SubSeq(s, 1, Len(s) - 1))
    ELSE s

\* str.strip()
strip(s) == rstrip(lstrip(s))

\* s.startswith("#")
startswith_hash(s) == s # <<>> /\ Head(s) = 35

\* ":" in s
has_colon(s) == \E k \in 1..Len(s) : s[k] = 58

\* split_colon_value splitting at the last colon (rsplit)
split_colon_value_last(s) ==
    LET last == CHOOSE k \in 1..Len(s) : s[k] = 58 /\ \A m \in (k + 1)..Len(s) : s[m] # 58
    IN  SubSeq(s, last + 1, Len(s))

\* s.split(":", 1)[1] for a string that holds a colon: what follows the first
split_colon_value(s) ==
    LET first == CHOOSE k \in 1..Len(s) : s[k] = 58 /\ \A m \in 1..(k - 1) : s[m] # 58
    IN  SubSeq(s, first + 1, Len(s))

parse_line(raw) ==
    LET line == strip(raw)
    IN  IF line = <<>> \/ startswith_hash(line) THEN None
        ELSE IF has_colon(line) THEN Str(strip(split_colon_value(line)))
        ELSE Str(line)

(***************************************************************************)
(* load_and_validate                                                       *)
(***************************************************************************)
Result(n, pw, v, m) == [line_no |-> n, password |-> pw, valid |-> v, message |-> m]

\* line_number with the default start of enumerate
line_number_from_zero(consumed) == consumed

\* enumerate(f, start=1): the number given to the line read after consumed
\* lines have been read
line_number(consumed) == consumed + 1

(***************************************************************************)
(* Inputs.  An argument of a direct call is a short string over Alphabet   *)
(* put before or after one of the literal strings of Tails, or a value     *)
(* that is not a str.  A file is a sequence of lines; each line ends with  *)
(* a line feed, except possibly the last.                                  *)
(***************************************************************************)
\* A Z a 1 # @ [ : space LF E-acute ARABIC-INDIC-DIGIT-THREE
Alphabet == {65, 90, 97, 49, 35, 64, 91, 58, 32, 10, 201, 1635}

SeqsUpTo(S, n) == UNION {[1..m -> S] : m \in 0..n}

Tails ==
    { <<>>,
      <<65, 65, 65, 49, 49, 49, 35, 35, 35, 88>>,       \* "AAA111###X"
      <<97, 97, 97, 49, 49, 49, 35, 35, 35>>,        \* "aaa111###"
      <<97, 97, 97, 49, 49, 49, 35, 35, 35, 120>>,       \* "aaa111###x"
      <<65, 65, 65, 49, 49, 35, 35, 35, 35, 120>>,       \* "AAA11####x"
      <<65, 65, 65, 49, 49, 49, 49, 49, 49>>,        \* "AAA111111"
      <<65, 65, 65, 49, 49, 49, 49, 49, 49, 49>>,       \* "AAA1111111"
      <<97, 97, 97, 97, 97, 97, 97, 97, 97, 97>>,       \* "aaaaaaaaaa"
      <<65, 65, 49, 49, 35, 35, 35, 35>>,         \* "AA11####"
      <<65, 65, 65, 49, 49, 49, 35, 97, 97>> }       \* "AAA111#aa"

NonStrings == {None} \cup {[type |-> "bytes", val |-> t] : t \in Tails}

\* space # : A
LineAlphabet == {32, 35, 58, 65}

LiteralLines ==
    { <<35, 65, 65, 65, 49, 49, 49, 98, 99, 100>>,
          \* "#AAA111bcd"
      <<80, 65, 83, 83, 87, 79, 82, 68, 58, 32, 35, 65, 65, 65, 49, 49, 49, 98, 99, 100>>,
          \* "PASSWORD: #AAA111bcd"
      <<80, 65, 83, 83, 87, 79, 82, 68, 58, 32, 65, 65, 65, 49, 49, 49, 35, 35, 35, 88>>,
          \* "PASSWORD: AAA111###X"
      <<32, 80, 65, 83, 83, 87, 79, 82, 68, 58, 97, 97, 97, 49, 49, 49, 35, 35, 35, 120, 32, 32>>,
          \* " PASSWORD:aaa111###x  "
      <<32, 32, 35, 32, 65, 65, 65, 49, 49, 49, 35, 35, 35, 88>>,
          \* "  # AAA111###X"
      <<97, 58, 98, 58, 32, 99>>,
          \* "a:b: c"
      <<80, 65, 83, 83, 87, 79, 82, 68, 58>> }
          \* "PASSWORD:"

LineBodies == LiteralLines \cup SeqsUpTo(LineAlphabet, MaxLineLen)

\* the lines of a file, as iterating over it yields them
Lines(body, nl) ==
    [k \in 1..Len(body) |-> IF k < Len(body) \/ nl THEN body[k] \o <<10>> ELSE body[k]]

(***************************************************************************)
(* State machine.  arg and verdict are the argument and the result of the  *)
(* latest call of validate_password; file, i and out are the lines of the  *)
(* file being loaded, the number of lines consumed and the list built.     *)
(***************************************************************************)
NoVerdict == Verdict(FALSE, "(not called)")

InitCall ==
    /\ pc = "call"
    /\ \/ \E c \in SeqsUpTo(Alphabet, MaxCore), t \in Tails :
              arg \in {Str(c \o t), Str(t \o c)}
       \/ arg \in NonStrings
    /\ verdict = NoVerdict
    /\ file = <<>>
    /\ i = 0
    /\ out = <<>>

InitLoad ==
    /\ pc = "loading"
    /\ \E n \in 0..MaxLines :
           \E body \in [1..n -> LineBodies], nl \in BOOLEAN : file = Lines(body, nl)
    /\ i = 0
    /\ out = <<>>
    /\ arg = None
    /\ verdict = NoVerdict

Init == InitCall \/ InitLoad

\* a direct call validate_password(arg)
Validate ==
    /\ pc = "call"
    /\ verdict' = validate_password(arg)
    /\ pc' = "ret"
    /\ UNCHANGED <<arg, file, i, out>>

\* an iteration of the loop of load_and_validate on a blank or comment line
LoadSkip ==
    /\ pc = "loading"
    /\ i < Len(file)
    /\ parse_line(file[i + 1]) = None
    /\ i' = i + 1
    /\ UNCHANGED <<arg, verdict, file, out, pc>>

\* an iteration of the loop of load_and_validate on a line with a candidate
LoadAppend ==
    /\ pc = "loading"
    /\ i < Len(file)
    /\ LET pw == parse_line(file[i + 1])
           v == validate_password(pw)
       IN  /\ pw # None
           /\ arg' = pw
           /\ verdict' = v
           /\ out' = Append(out, Result(line_number(i), pw.val, v.valid, v.message))
    /\ i' = i + 1
    /\ UNCHANGED <<file, pc>>

\* the file is exhausted: load_and_validate returns out
LoadReturn ==
    /\ pc = "loading"
    /\ i = Len(file)
    /\ pc' = "loaded"
    /\ UNCHANGED <<arg, verdict, file, i, out>>

Next == Validate \/ LoadSkip \/ LoadAppend \/ LoadReturn

Spec == Init /\ [][Next]_vars

TypeOK ==
    /\ pc \in {"call", "ret", "loading", "loaded"}
    /\ verdict.valid \in BOOLEAN
    /\ i \in 0..Len(file)
    /\ Len(out) <= i

(***************************************************************************)
(* The policy, stated on the string alone.                                 *)
(***************************************************************************)
UPPERCASE_SET == 65..90

DIGIT_SET == 48..57

SPECIAL_SET == {35, 36, 37, 33, 64, 43, 61}

ALLOWED_SET == UPPERCASE_SET \cup (97..122) \cup DIGIT_SET \cup SPECIAL_SET

Count(S, s) == Cardinality({k \in 1..Len(s) : s[k] \in S})

RuleCharsetLen(s) == Len(s) >= 10 /\ \A k \in 1..Len(s) : s[k] \in ALLOWED_SET

RuleUpper(s) == Count(UPPERCASE_SET, s) >= 3

RuleDigit(s) == Count(DIGIT_SET, s) >= 3

RuleSpecial(s) == Count(SPECIAL_SET, s) >= 1

MeetsPolicy(s) == RuleCharsetLen(s) /\ RuleUpper(s) /\ RuleDigit(s) /\ RuleSpecial(s)

\* the four failure codes; the charset/length code has two forms
FailureCodes == {MSG_SHORT, MSG_CHARSET, MSG_UPPER, MSG_DIGIT, MSG_SPECIAL}

\* validate_password has returned verdict for arg
Returned == verdict # NoVerdict

IsStrArg == arg.type = "str"

\* C1: for a str argument, the verdict is valid if and only if the string has
\* at least 10 characters, all of them in ALLOWED_SET, at least 3 in [A-Z],
\* at least 3 digits and at least 1 in SPECIAL_SET.
C1_ValidIffPolicy ==
    (Returned /\ IsStrArg) => (verdict.valid <=> MeetsPolicy(arg.val))

\* a password of exactly 10 characters was found valid
C1_Witness ==
    Returned /\ IsStrArg /\ Len(arg.val) = 10 /\ verdict.valid /\ MeetsPolicy(arg.val)

\* the reasons of the first rule a string violates, in the order
\* charset-and-length, uppercase, digits, special
FirstViolatedReasons(s) ==
    IF ~RuleCharsetLen(s) THEN {MSG_SHORT, MSG_CHARSET}
    ELSE IF ~RuleUpper(s) THEN {MSG_UPPER}
    ELSE IF ~RuleDigit(s) THEN {MSG_DIGIT}
    ELSE IF ~RuleSpecial(s) THEN {MSG_SPECIAL}
    ELSE {}

\* C2: a str argument that violates the policy gets the reason of the first
\* rule it violates in the order charset-and-length, uppercase, digits,
\* special; one that passes the first rule and fails both the uppercase and
\* the digit rule gets the uppercase reason.
C2_FirstViolatedReason ==
    (Returned /\ IsStrArg /\ ~MeetsPolicy(arg.val)) =>
        /\ verdict.message \in FirstViolatedReasons(arg.val)
        /\ (RuleCharsetLen(arg.val) /\ ~RuleUpper(arg.val) /\ ~RuleDigit(arg.val))
               => verdict.message = MSG_UPPER

\* a password failing the uppercase and the digit rule got the uppercase reason
C2_Witness ==
    /\ Returned /\ IsStrArg
    /\ RuleCharsetLen(arg.val) /\ ~RuleUpper(arg.val) /\ ~RuleDigit(arg.val)
    /\ verdict.message = MSG_UPPER

\* C3: when the charset-and-length rule fails, a string shorter than 10 gets
\* the combined reason whether or not it holds a disallowed character, and a
\* string of 10 or more gets the disallowed-character reason.
C3_LengthDecidesSubReason ==
    (Returned /\ IsStrArg /\ ~RuleCharsetLen(arg.val)) =>
        verdict.message = (IF Len(arg.val) < 10 THEN MSG_SHORT ELSE MSG_CHARSET)

\* a short password holding a disallowed character got the combined reason
C3_Witness ==
    /\ Returned /\ IsStrArg
    /\ Len(arg.val) \in 1..9
    /\ \E k \in 1..Len(arg.val) : arg.val[k] \notin ALLOWED_SET
    /\ verdict.message = MSG_SHORT

\* C4 as stated: a valid verdict has reason OK and an invalid one has one of
\* the four failure codes.
C4_Original ==
    Returned =>
        /\ verdict.valid => verdict.message = MSG_OK
        /\ ~verdict.valid => verdict.message \in FailureCodes

\* C4 as amended: a valid verdict has reason OK; an invalid one has one of the
\* four failure codes when the argument is a str, and the invalid-string
\* reason when it is not.
C4_VerdictShape ==
    Returned =>
        /\ verdict.valid => verdict.message = MSG_OK
        /\ ~verdict.valid =>
               IF IsStrArg THEN verdict.message \in FailureCodes
               ELSE verdict.message = MSG_INVALID

\* an argument that is not a str has been given its verdict
C4_Witness == Returned /\ ~IsStrArg /\ ~verdict.valid /\ verdict.message = MSG_INVALID

\* "AAA111111"
AAA111111 == <<65, 65, 65, 49, 49, 49, 49, 49, 49>>

\* C5 as stated: "AAA111111" is invalid for want of a special character.
C5_Original ==
    (Returned /\ arg = Str(AAA111111)) =>
        ~verdict.valid /\ verdict.message = MSG_SPECIAL

\* C5 as amended: "AAA111111", which has 9 characters, is invalid with the
\* combined length/charset reason.
C5_NineCharLiteral ==
    (Returned /\ arg = Str(AAA111111)) =>
        ~verdict.valid /\ verdict.message = MSG_SHORT

\* validate_password("AAA111111") has returned
C5_Witness == pc = "ret" /\ arg = Str(AAA111111) /\ Len(arg.val) = 9 /\ Returned

HasNonAscii(s) == \E k \in 1..Len(s) : s[k] > 127

\* C6: a str argument holding a non-ASCII character is invalid with one of
\* the two charset/length reasons.
C6_NonAsciiIsCharsetFailure ==
    (Returned /\ IsStrArg /\ HasNonAscii(arg.val)) =>
        ~verdict.valid /\ verdict.message \in {MSG_SHORT, MSG_CHARSET}

\* a password that would meet the policy if its non-ASCII decimal digit
\* counted as a digit got the disallowed-character reason
C6_Witness ==
    /\ Returned /\ IsStrArg
    /\ Len(arg.val) >= 10
    /\ \E k \in 1..Len(arg.val) : arg.val[k] > 127 /\ arg.val[k] \in UnicodeDecimal
    /\ \A k \in 1..Len(arg.val) : arg.val[k] \in ALLOWED_SET \/ arg.val[k] \in UnicodeDecimal
    /\ RuleUpper(arg.val) /\ RuleSpecial(arg.val) /\ Count(DIGIT_SET, arg.val) = 2
    /\ verdict.message = MSG_CHARSET

\* the four individual checks of validate_password pass
IndividualChecksPass(s) ==
    /\ CharsetLenFullmatch(s)
    /\ Len(findall(UpperAZ, s)) >= 3
    /\ Len(findall(UnicodeDecimal, s)) >= 3
    /\ search(Special, s)

\* C7: PASSWORD_REGEX matches every string that passes the four individual
\* checks, and no verdict carries the composite-policy reason.
C7_CompositeNeverTriggers ==
    Returned =>
        /\ verdict.message # MSG_POLICY
        /\ (IsStrArg /\ IndividualChecksPass(arg.val)) => PASSWORD_REGEX(arg.val)

\* a password passed the four individual checks and the composite one
C7_Witness ==
    Returned /\ IsStrArg /\ IndividualChecksPass(arg.val) /\ verdict.message = MSG_OK

\* C10: an argument that is not a str gets (False, "Cadena invalida"), a
\* reason that is neither OK nor a policy-violation reason.
C10_NonStringArgument ==
    (Returned /\ ~IsStrArg) =>
        /\ verdict = Verdict(FALSE, MSG_INVALID)
        /\ verdict.message \notin (FailureCodes \cup {MSG_OK, MSG_POLICY})

\* a bytes argument whose content meets the policy was rejected
C10_Witness ==
    Returned /\ arg.type = "bytes" /\ MeetsPolicy(arg.val) /\ ~verdict.valid

(***************************************************************************)
(* The loader.                                                             *)
(***************************************************************************)
Loading == pc \in {"loading", "loaded"}

NonWhitespaceAt(raw) == {k \in 1..Len(raw) : ~IsWhitespace(raw[k])}

IsBlank(raw) == NonWhitespaceAt(raw) = {}

\* the first character of raw that is not whitespace is "#"
IsComment(raw) ==
    \E k \in NonWhitespaceAt(raw) :
        /\ raw[k] = 35
        /\ \A m \in NonWhitespaceAt(raw) : k <= m

\* r is s without its leading and trailing whitespace: the part of s from
\* its first to its last character that is not whitespace
IsStripOf(r, s) ==
    IF IsBlank(s) THEN r = <<>>
    ELSE \E a \in NonWhitespaceAt(s), b \in NonWhitespaceAt(s) :
             /\ \A m \in NonWhitespaceAt(s) : a <= m /\ m <= b
             /\ r = SubSeq(s, a, b)

\* what follows the first ":" of raw
AfterFirstColon(raw) ==
    LET colons == {k \in 1..Len(raw) : raw[k] = 58}
        first == CHOOSE k \in colons : \A m \in colons : k <= m
    IN  SubSeq(raw, first + 1, Len(raw))

ResultsOfLine(n) == {k \in 1..Len(out) : out[k].line_no = n}

\* C8: the results are those of the consumed lines that are neither blank nor
\* comments, one each, in file order, numbered by physical line from 1, and
\* each carries the verdict of validate_password on its password.
C8_OneResultPerCandidateLine ==
    Loading =>
        /\ {out[k].line_no : k \in 1..Len(out)}
               = {n \in 1..i : ~IsBlank(file[n]) /\ ~IsComment(file[n])}
        /\ \A k \in 1..(Len(out) - 1) : out[k].line_no < out[k + 1].line_no
        /\ \A k \in 1..Len(out) :
               LET v == validate_password(Str(out[k].password))
               IN  out[k].valid = v.valid /\ out[k].message = v.message

\* a file whose first line was skipped and whose second line gave a result
C8_Witness ==
    /\ pc = "loaded"
    /\ Len(file) = 2
    /\ Len(out) = 1
    /\ out[1].line_no = 2

HashLine == <<35, 65, 65, 65, 49, 49, 49, 98, 99, 100>>

PrefixedHashLine == <<80, 65, 83, 83, 87, 79, 82, 68, 58, 32, 35, 65, 65, 65, 49, 49, 49, 98, 99, 100>>

\* C9: a consumed line whose first non-whitespace character is "#" gives no
\* result, so the bare "#AAA111bcd" gives none while "PASSWORD: #AAA111bcd"
\* is validated as "#AAA111bcd"; any other non-blank line gives the stripped
\* text after its first ":" if it has one, else the stripped line.
C9_CommentLinesDropped ==
    Loading =>
        \A n \in 1..i :
            /\ IsComment(file[n]) => ResultsOfLine(n) = {}
            /\ (~IsComment(file[n]) /\ ~IsBlank(file[n])) =>
                   \E k \in ResultsOfLine(n) :
                       IsStripOf(out[k].password,
                                 IF \E m \in 1..Len(file[n]) : file[n][m] = 58
                                 THEN AfterFirstColon(file[n])
                                 ELSE file[n])
            /\ file[n] = HashLine \o <<10>> => ResultsOfLine(n) = {}
            /\ file[n] = PrefixedHashLine \o <<10>> =>
                   \E k \in ResultsOfLine(n) :
                       out[k].password = HashLine /\ out[k].valid

\* the bare line was dropped and the prefixed one validated
C9_Witness ==
    /\ pc = "loaded"
    /\ Len(file) = 2
    /\ file[1] = HashLine \o <<10>>
    /\ file[2] = PrefixedHashLine \o <<10>>
    /\ Len(out) = 1
    /\ out[1].password = HashLine
    /\ out[1].valid

====
